---- MODULE Spec2Model ----
(***************************************************************************)
(* Model of crates/sui-sparse-client/src/main.rs: the two sparse-node      *)
(* accumulators (CounterSparseNode, HashChainSparseNode), their update     *)
(* operation and the flat leaf aggregator compute_merkle_tree.             *)
(*                                                                         *)
(* Byte strings are sequences of chunks <<tag, payload>>:                  *)
(*   <<"byte", <<b>>>>   one byte b                                        *)
(*   <<"raw",  <<k>>>>   the 32 bytes [k; 32]                              *)
(*   <<"sha",  bytes>>   the 32 bytes of SHA-256 over the byte string      *)
(* so that hashing a concatenation is hashing the concatenated sequence    *)
(* and SHA-256 is collision-free on the byte strings the program builds.   *)
(*                                                                         *)
(* Machine integers (u32, usize) are pairs <<hi, lo>> of 16-bit limbs,     *)
(* value hi * 2^16 + lo; a u32 has hi < 2^16.                              *)
(*                                                                         *)
(* A Vec<Point> is held run-length encoded, as a sequence of runs          *)
(* <<point, count>>, so that vectors of about 2^32 points are inputs.      *)
(***************************************************************************)
EXTENDS Integers, Sequences, FiniteSets, TLC

VARIABLES
    variant,          \* which accumulator the program constructed
    overflow_checks,  \* build profile: TRUE = overflow checks on (debug)
    counts,           \* CounterSparseNode.counts
    heads,            \* HashChainSparseNode.heads
    call,             \* the last update call: input, result, per-entry trace
    peer,             \* the Counter's side of the last call when both
                      \* accumulators are fed the same batch
    applied,          \* exact number of points applied per stream (Counter)
    hist,             \* per stream, the point segments applied (HashChain)
    work              \* number of entries and runs consumed so far

vars == <<variant, overflow_checks, counts, heads, call, peer, applied, hist, work>>

\* Total entries plus runs a behaviour may feed to update.
MaxWork == 5

----------------------------------------------------------------------------
(* Machine integers *)

LIMB == 65536

ZERO == <<0, 0>>
ONE == <<0, 1>>
U32_MAX == <<LIMB - 1, LIMB - 1>>

BigAdd(a, b) ==
    LET lo == a[2] + b[2]
    IN  <<a[1] + b[1] + (lo \div LIMB), lo % LIMB>>

BigLeq(a, b) == a[1] < b[1] \/ (a[1] = b[1] /\ a[2] <= b[2])

FitsU32(a) == a[1] < LIMB

\* u32 arithmetic without overflow checks keeps the low 32 bits.
WrapU32(a) == <<a[1] % LIMB, a[2]>>

----------------------------------------------------------------------------
(* Bytes and digests *)

Byte(b) == <<"byte", <<b>>>>

Raw32(k) == <<"raw", <<k>>>>

Sha256(bytes) == <<"sha", bytes>>

EMPTY_NODE == Raw32(0)

EMPTY_POINT == EMPTY_NODE

OTHER_POINT == Raw32(1)

to_be_bytes(n) ==
    << Byte(n[1] \div 256), Byte(n[1] % 256),
       Byte(n[2] \div 256), Byte(n[2] % 256) >>

RECURSIVE Concat(_)
Concat(bufs) ==
    IF bufs = <<>> THEN <<>> ELSE Head(bufs) \o Concat(Tail(bufs))

\* Variant: an empty leaf list yields the empty-node digest instead of a hash.
compute_merkle_tree_empty_node(digests) ==
    IF digests = <<>> THEN <<EMPTY_NODE>> ELSE <<Sha256(Concat(digests))>>

compute_merkle_tree(digests) == <<Sha256(Concat(digests))>>

----------------------------------------------------------------------------
(* Inputs *)

StreamIDs == {0, 1}

StreamID(s) == <<0, s>>

Points == {EMPTY_POINT, OTHER_POINT}

RECURSIVE VecLen(_)
VecLen(points) ==
    IF points = <<>> THEN ZERO
    ELSE BigAdd(Head(points)[2], VecLen(Tail(points)))

RECURSIVE Expand(_)
Expand(points) ==
    IF points = <<>> THEN <<>>
    ELSE [i \in 1..Head(points)[2][2] |-> Head(points)[1]] \o Expand(Tail(points))

EntryCost(upd) == 1 + Len(upd[2])

RECURSIVE BatchCost(_)
BatchCost(updates) ==
    IF updates = <<>> THEN 0
    ELSE EntryCost(Head(updates)) + BatchCost(Tail(updates))

CallCost(updates) == IF updates = <<>> THEN 1 ELSE BatchCost(updates)

VecsOver(runs, n) == UNION {[1..k -> runs] : k \in 0..n}

RECURSIVE BatchesOver(_, _)
BatchesOver(runs, budget) ==
    {<<>>} \cup
    UNION { { <<<<s, v>>>> \o rest : rest \in BatchesOver(runs, budget - 1 - Len(v)) } :
            s \in StreamIDs, v \in VecsOver(runs, budget - 1) }

CounterRuns == {<<EMPTY_POINT, ONE>>, <<EMPTY_POINT, U32_MAX>>}

HashChainRuns == {<<p, ONE>> : p \in Points}

\* The batches of cost at most b, for every budget b that can be left.
CounterBatches == [b \in 1..MaxWork |-> BatchesOver(CounterRuns, b)]

HashChainBatches == [b \in 1..MaxWork |-> BatchesOver(HashChainRuns, b)]

----------------------------------------------------------------------------
(* HashMap *)

\* A HashMap over stream ids: a total function, Absent where there is no key.
Absent == <<>>

EmptyMap == [s \in StreamIDs |-> Absent]

Keys(m) == {s \in StreamIDs : m[s] # Absent}

\* Variant: insert(k, default) in place of entry(k).or_insert(default).
or_insert_always(m, k, default) == [m EXCEPT ![k] = default]

or_insert(m, k, default) ==
    IF k \in Keys(m) THEN m ELSE [m EXCEPT ![k] = default]

\* Variant: the write goes to every tracked stream, as with one shared cell.
store_shared(m, k, v) ==
    [x \in StreamIDs |-> IF x = k \/ m[x] # Absent THEN v ELSE m[x]]

store(m, k, v) == [m EXCEPT ![k] = v]

Read(m, k, default) == IF k \in Keys(m) THEN m[k] ELSE default

----------------------------------------------------------------------------
(* CounterSparseNode::update *)

CounterLeaf(stream_id, sum, counter) ==
    <<Sha256(to_be_bytes(StreamID(stream_id)) \o to_be_bytes(sum) \o to_be_bytes(counter))>>

\* Variant: an entry without points is skipped, with no key and no leaf.
CounterEntry_skip_empty(st, upd, checks) ==
    LET stream_id == upd[1]
        points == upd[2]
        len == VecLen(points)
        entered == Append(st.trace, [id |-> stream_id, pre |-> st.store])
    IN  IF points = <<>> THEN [st EXCEPT !.trace = entered]
        ELSE IF ~FitsU32(len)
        THEN [st EXCEPT !.trace = entered, !.outcome = "panic"]
        ELSE LET sum == len
                 inserted == or_insert(st.store, stream_id, ZERO)
                 total == BigAdd(inserted[stream_id], sum)
             IN  IF ~FitsU32(total) /\ checks
                 THEN [st EXCEPT !.store = inserted, !.trace = entered,
                                 !.outcome = "panic"]
                 ELSE LET counter == WrapU32(total)
                      IN  [store |-> store(inserted, stream_id, counter),
                           leafs |-> Append(st.leafs, CounterLeaf(stream_id, sum, counter)),
                           trace |-> entered,
                           outcome |-> "ok"]

\* One iteration of the loop over updates.  st is the loop state: the
\* store, the leaves pushed so far, the entries entered so far (each with
\* the store as it was when the entry was entered) and the outcome.
CounterEntry(st, upd, checks) ==
    LET stream_id == upd[1]
        points == upd[2]
        len == VecLen(points)
        entered == Append(st.trace, [id |-> stream_id, pre |-> st.store])
    IN  IF ~FitsU32(len)
        THEN \* points.len().try_into().unwrap() panics
             [st EXCEPT !.trace = entered, !.outcome = "panic"]
        ELSE LET sum == len
                 inserted == or_insert(st.store, stream_id, ZERO)
                 total == BigAdd(inserted[stream_id], sum)
             IN  IF ~FitsU32(total) /\ checks
                 THEN \* attempt to add with overflow
                      [st EXCEPT !.store = inserted, !.trace = entered,
                                 !.outcome = "panic"]
                 ELSE LET counter == WrapU32(total)
                      IN  [store |-> store(inserted, stream_id, counter),
                           leafs |-> Append(st.leafs, CounterLeaf(stream_id, sum, counter)),
                           trace |-> entered,
                           outcome |-> "ok"]

RECURSIVE CounterLoop(_, _, _)
CounterLoop(st, updates, checks) ==
    IF updates = <<>> \/ st.outcome = "panic" THEN st
    ELSE CounterLoop(CounterEntry(st, Head(updates), checks), Tail(updates), checks)

----------------------------------------------------------------------------
(* HashChainSparseNode::update *)

\* Variant: the head is rehashed once even when there is no point.
RECURSIVE ChainFold_rehash(_, _)
ChainFold_rehash(head, points) ==
    IF points = <<>> THEN Sha256(<<head>>)
    ELSE IF Len(points) = 1 THEN Sha256(<<head, Head(points)>>)
    ELSE ChainFold_rehash(Sha256(<<head, Head(points)>>), Tail(points))

\* Variant: the point is not fed to the hasher, only the head is.
RECURSIVE ChainFold_no_point(_, _)
ChainFold_no_point(head, points) ==
    IF points = <<>> THEN head
    ELSE ChainFold_no_point(Sha256(<<head>>), Tail(points))

RECURSIVE ChainFold(_, _)
ChainFold(head, points) ==
    IF points = <<>> THEN head
    ELSE ChainFold(Sha256(<<head, Head(points)>>), Tail(points))

RECURSIVE HeadsOf(_, _)
HeadsOf(m, ids) ==
    IF ids = {} THEN <<>>
    ELSE LET s == CHOOSE x \in ids : \A y \in ids : x <= y
         IN  <<m[s]>> \o HeadsOf(m, ids \ {s})

\* Variant: the leaf of an entry hashes in every tracked head, not only the
\* head of the entry's stream.
HashChainEntry_all_heads(st, upd) ==
    LET stream_id == upd[1]
        points == upd[2]
        inserted == or_insert(st.store, stream_id, EMPTY_NODE)
        head == ChainFold(inserted[stream_id], Expand(points))
        stored == store(inserted, stream_id, head)
    IN  [store |-> stored,
         leafs |-> Append(st.leafs, HeadsOf(stored, Keys(stored))),
         trace |-> Append(st.trace, [id |-> stream_id, pre |-> st.store]),
         outcome |-> "ok"]

\* Variant: the leaf is taken before the entry's points are folded in.
HashChainEntry_prior_leaf(st, upd) ==
    LET stream_id == upd[1]
        points == upd[2]
        inserted == or_insert(st.store, stream_id, EMPTY_NODE)
        head == ChainFold(inserted[stream_id], Expand(points))
    IN  [store |-> store(inserted, stream_id, head),
         leafs |-> Append(st.leafs, <<inserted[stream_id]>>),
         trace |-> Append(st.trace, [id |-> stream_id, pre |-> st.store]),
         outcome |-> "ok"]

\* Variant: a never-seen stream gets no key from an entry without points.
HashChainEntry_no_key_when_empty(st, upd) ==
    LET stream_id == upd[1]
        points == upd[2]
        inserted == or_insert(st.store, stream_id, EMPTY_NODE)
        head == ChainFold(inserted[stream_id], Expand(points))
    IN  [store |-> IF points = <<>> THEN st.store ELSE store(inserted, stream_id, head),
         leafs |-> Append(st.leafs, <<head>>),
         trace |-> Append(st.trace, [id |-> stream_id, pre |-> st.store]),
         outcome |-> "ok"]

\* Variant: an entry without points pushes no leaf.
HashChainEntry_skip_empty(st, upd) ==
    LET stream_id == upd[1]
        points == upd[2]
        inserted == or_insert(st.store, stream_id, EMPTY_NODE)
        head == ChainFold(inserted[stream_id], Expand(points))
    IN  [store |-> store(inserted, stream_id, head),
         leafs |-> IF points = <<>> THEN st.leafs ELSE Append(st.leafs, <<head>>),
         trace |-> Append(st.trace, [id |-> stream_id, pre |-> st.store]),
         outcome |-> "ok"]

\* Variant: a stream already touched by this batch pushes no second leaf.
HashChainEntry_dedup(st, upd) ==
    LET stream_id == upd[1]
        points == upd[2]
        inserted == or_insert(st.store, stream_id, EMPTY_NODE)
        head == ChainFold(inserted[stream_id], Expand(points))
        touched == {st.trace[i].id : i \in DOMAIN st.trace}
    IN  [store |-> store(inserted, stream_id, head),
         leafs |-> IF stream_id \in touched THEN st.leafs ELSE Append(st.leafs, <<head>>),
         trace |-> Append(st.trace, [id |-> stream_id, pre |-> st.store]),
         outcome |-> "ok"]

HashChainEntry(st, upd) ==
    LET stream_id == upd[1]
        points == upd[2]
        inserted == or_insert(st.store, stream_id, EMPTY_NODE)
        head == ChainFold(inserted[stream_id], Expand(points))
    IN  [store |-> store(inserted, stream_id, head),
         leafs |-> Append(st.leafs, <<head>>),
         trace |-> Append(st.trace, [id |-> stream_id, pre |-> st.store]),
         outcome |-> "ok"]

\* Variant: the entries are processed last to first.
RECURSIVE HashChainLoop_reversed(_, _)
HashChainLoop_reversed(st, updates) ==
    IF updates = <<>> THEN st
    ELSE HashChainEntry(HashChainLoop_reversed(st, Tail(updates)), Head(updates))

RECURSIVE HashChainLoop(_, _)
HashChainLoop(st, updates) ==
    IF updates = <<>> THEN st
    ELSE HashChainLoop(HashChainEntry(st, Head(updates)), Tail(updates))

----------------------------------------------------------------------------
(* Bookkeeping of what was applied *)

LoopStart(m) == [store |-> m, leafs |-> <<>>, trace |-> <<>>, outcome |-> "ok"]

NoCall ==
    [op |-> "none", updates |-> <<>>, outcome |-> "ok", leafs |-> <<>>,
     digest |-> <<>>, trace |-> <<>>, pre |-> EmptyMap]

CallOf(op, updates, pre, r) ==
    [op |-> op, updates |-> updates, outcome |-> r.outcome, leafs |-> r.leafs,
     digest |-> IF r.outcome = "ok" THEN compute_merkle_tree(r.leafs) ELSE <<>>,
     trace |-> r.trace, pre |-> pre]

\* The number of points of stream s in the first n entries of updates.
RECURSIVE PointsFor(_, _, _)
PointsFor(updates, n, s) ==
    IF n = 0 THEN ZERO
    ELSE BigAdd(PointsFor(updates, n - 1, s),
                IF updates[n][1] = s THEN VecLen(updates[n][2]) ELSE ZERO)

\* The point segments of stream s in updates, in batch order.
RECURSIVE SegmentsFor(_, _)
SegmentsFor(updates, s) ==
    IF updates = <<>> THEN <<>>
    ELSE (IF Head(updates)[1] = s THEN <<Expand(Head(updates)[2])>> ELSE <<>>)
         \o SegmentsFor(Tail(updates), s)

----------------------------------------------------------------------------
(* The program *)

Init ==
    /\ variant = "none"
    /\ overflow_checks \in BOOLEAN
    /\ counts = EmptyMap
    /\ heads = EmptyMap
    /\ call = NoCall
    /\ peer = NoCall
    /\ applied = [s \in StreamIDs |-> ZERO]
    /\ hist = [s \in StreamIDs |-> <<>>]
    /\ work = 0

CounterSparseNode_new ==
    /\ variant = "none"
    /\ variant' = "counter"
    /\ counts' = EmptyMap
    /\ UNCHANGED <<overflow_checks, heads, call, peer, applied, hist, work>>

HashChainSparseNode_new ==
    /\ variant = "none"
    /\ variant' = "hashchain"
    /\ heads' = EmptyMap
    /\ UNCHANGED <<overflow_checks, counts, call, peer, applied, hist, work>>

CounterSparseNode_update ==
    /\ variant = "counter"
    /\ call.outcome = "ok"
    /\ work < MaxWork
    /\ \E updates \in CounterBatches[MaxWork - work] :
         /\ LET r == CounterLoop(LoopStart(counts), updates, overflow_checks)
            IN  /\ counts' = r.store
                /\ call' = CallOf("counter", updates, counts, r)
                /\ applied' = [s \in StreamIDs |->
                                 BigAdd(applied[s], PointsFor(updates, Len(r.leafs), s))]
         /\ work' = work + CallCost(updates)
    /\ UNCHANGED <<variant, overflow_checks, heads, peer, hist>>

HashChainSparseNode_update ==
    /\ variant = "hashchain"
    /\ work < MaxWork
    /\ \E updates \in HashChainBatches[MaxWork - work] :
         /\ LET r == HashChainLoop(LoopStart(heads), updates)
            IN  /\ heads' = r.store
                /\ call' = CallOf("hashchain", updates, heads, r)
         /\ hist' = [s \in StreamIDs |-> hist[s] \o SegmentsFor(updates, s)]
         /\ work' = work + CallCost(updates)
    /\ UNCHANGED <<variant, overflow_checks, counts, peer, applied>>

\* One accumulator of each kind is constructed, to be fed the same batches
\* (as the two tests do with their first batch).
Both_new ==
    /\ variant = "none"
    /\ variant' = "both"
    /\ counts' = EmptyMap
    /\ heads' = EmptyMap
    /\ UNCHANGED <<overflow_checks, call, peer, applied, hist, work>>

\* The same batch goes to update of the Counter and of the HashChain.
Both_update ==
    /\ variant = "both"
    /\ peer.outcome = "ok"
    /\ work < MaxWork
    /\ \E updates \in HashChainBatches[MaxWork - work] :
         /\ LET c == CounterLoop(LoopStart(counts), updates, overflow_checks)
                h == HashChainLoop(LoopStart(heads), updates)
            IN  /\ counts' = c.store
                /\ heads' = h.store
                /\ peer' = CallOf("counter", updates, counts, c)
                /\ call' = CallOf("hashchain", updates, heads, h)
                /\ applied' = [s \in StreamIDs |->
                                 BigAdd(applied[s], PointsFor(updates, Len(c.leafs), s))]
         /\ hist' = [s \in StreamIDs |-> hist[s] \o SegmentsFor(updates, s)]
         /\ work' = work + CallCost(updates)
    /\ UNCHANGED <<variant, overflow_checks>>

Next ==
    \/ CounterSparseNode_new
    \/ HashChainSparseNode_new
    \/ Both_new
    \/ CounterSparseNode_update
    \/ HashChainSparseNode_update
    \/ Both_update

Spec == Init /\ [][Next]_vars

----------------------------------------------------------------------------
(* Properties of the last update call *)

IdsOf(updates) == {updates[i][1] : i \in DOMAIN updates}

\* The store of the accumulator the last call ran on, as it is now.
Now == IF call.op = "counter" THEN counts ELSE heads

\* The value a never-seen stream is initialized with.
Genesis == IF call.op = "counter" THEN ZERO ELSE EMPTY_NODE

\* The store right after the i-th entry of the last call was processed.
After(i) == IF i < Len(call.trace) THEN call.trace[i + 1].pre ELSE Now

Returned == call.op # "none" /\ call.outcome = "ok"

\* C1: after update(batch), a stream id that is in no entry of the batch
\* has the state it had before the call (same presence, same counter or
\* head), and no leaf of the call is derived from it.
StreamIsolation ==
    call.op # "none" =>
        \A s \in StreamIDs \ IdsOf(call.updates) :
            /\ Now[s] = call.pre[s]
            /\ \A i \in DOMAIN call.trace : call.trace[i].id # s

StreamIsolationWitness ==
    /\ call.op = "hashchain"
    /\ \E s \in Keys(call.pre) \ IdsOf(call.updates) :
         \E i \in DOMAIN call.updates :
            /\ call.updates[i][2] # <<>>
            /\ Now[call.updates[i][1]] # call.pre[call.updates[i][1]]
            /\ Now[s] # Now[call.updates[i][1]]

\* C2: after an update call of the Counter that returns, every stream's
\* counter equals its counter before the call (0 if never seen) plus the
\* number of points the batch carries for that stream, and it did not
\* decrease.
CounterMonotonicity ==
    (call.op = "counter" /\ call.outcome = "ok") =>
        \A s \in StreamIDs :
            LET before == Read(call.pre, s, ZERO)
                after == Read(counts, s, ZERO)
            IN  /\ after = BigAdd(before, PointsFor(call.updates, Len(call.updates), s))
                /\ BigLeq(before, after)

\* C3: each stream's head is the left fold head := H(head || point) over
\* all the points ever applied to the stream, from the all-zero digest,
\* however the points were split into entries and calls.
ChainHeadIsFoldOfHistory ==
    variant \in {"hashchain", "both"} =>
        \A s \in StreamIDs :
            Read(heads, s, EMPTY_NODE) = ChainFold(EMPTY_NODE, Concat(hist[s]))

\* A stream that already had points from an earlier call gets more points.
ChainHeadIsFoldOfHistoryWitness ==
    /\ call.op = "hashchain"
    /\ \E i \in DOMAIN call.updates :
         /\ call.updates[i][2] # <<>>
         /\ call.pre[call.updates[i][1]] \notin {Absent, EMPTY_NODE}
         /\ Len(Concat(hist[call.updates[i][1]])) >= 2

\* C4: when an update call of the Counter fails, the store after the call
\* equals the store before it, for every stream.
BatchAtomicOnFailure ==
    (call.op = "counter" /\ call.outcome = "panic") => counts = call.pre

\* C5: after every update call of the Counter that returns normally, each
\* stored counter is the exact number of points ever applied to the stream.
CounterIsExact ==
    (call.op = "counter" /\ call.outcome = "ok") =>
        \A s \in Keys(counts) : counts[s] = applied[s]

\* Whether processing entry i of the last Counter call violates the 32-bit
\* precondition: its local count, or the running counter plus that count,
\* is out of range.
Violates(i) ==
    LET len == VecLen(call.updates[i][2])
        before == Read(call.trace[i].pre, call.updates[i][1], ZERO)
    IN  ~FitsU32(len) \/ ~FitsU32(BigAdd(before, len))

\* C6: on a counter precondition violation at an entry, update aborts
\* there, with that stream's counter and presence as they were right
\* before the entry was processed.
AbortBeforeCommit ==
    call.op = "counter" =>
        \A i \in DOMAIN call.trace :
            Violates(i) =>
                /\ call.outcome = "panic"
                /\ i = Len(call.trace)
                /\ counts[call.updates[i][1]] = call.trace[i].pre[call.updates[i][1]]

\* C7: the number of leaves folded into the returned aggregate is the
\* number of entries of the batch, whatever number of points each carries.
LeafPerEntry ==
    Returned => Len(call.leafs) = Len(call.updates)

LeafPerEntryWitness ==
    /\ Returned
    /\ call.op = "hashchain"
    /\ \E i, j \in DOMAIN call.updates :
         /\ call.updates[i][2] = <<>>
         /\ Len(call.updates[j][2]) >= 2
    /\ Len(call.leafs) = 2

\* C8 as stated: the number of leaves folded into the aggregate is the
\* number of distinct stream ids of the batch, also when a stream id is in
\* more than one entry.
OneLeafPerStream ==
    Returned => Len(call.leafs) = Cardinality(IdsOf(call.updates))

\* C8 as amended: every stream gets one leaf per entry it appears in, so
\* the number of leaves is the number of distinct stream ids exactly for
\* the batches in which no stream id is in more than one entry.
OneLeafPerStreamEntry ==
    Returned =>
        /\ \A s \in StreamIDs :
              Cardinality({i \in DOMAIN call.leafs : call.trace[i].id = s})
                = Cardinality({i \in DOMAIN call.updates : call.updates[i][1] = s})
        /\ (Len(call.leafs) = Cardinality(IdsOf(call.updates)))
              <=> (\A i, j \in DOMAIN call.updates :
                       call.updates[i][1] = call.updates[j][1] => i = j)

OneLeafPerStreamEntryWitness ==
    /\ Returned
    /\ call.op = "hashchain"
    /\ \E i, j \in DOMAIN call.updates :
         i # j /\ call.updates[i][1] = call.updates[j][1]
    /\ Len(call.leafs) > Cardinality(IdsOf(call.updates))

\* C9: update with an empty batch returns the hash of the empty input and
\* leaves the whole store as it was.
EmptyBatch ==
    (call.op # "none" /\ call.updates = <<>>) =>
        /\ call.outcome = "ok"
        /\ call.digest = <<Sha256(<<>>)>>
        /\ Now = call.pre

EmptyBatchWitness ==
    /\ call.op = "counter"
    /\ call.updates = <<>>
    /\ Keys(call.pre) = StreamIDs

\* C10: an entry without points leaves its stream's state as it was (a
\* never-seen stream reading as 0 or the all-zero digest) and still emits
\* a leaf, computed from that state.
ZeroPointEntry ==
    \A i \in DOMAIN call.leafs :
        call.updates[i][2] = <<>> =>
            LET id == call.updates[i][1]
                before == Read(call.trace[i].pre, id, Genesis)
            IN  /\ After(i)[id] = before
                /\ call.leafs[i] = IF call.op = "counter"
                                   THEN CounterLeaf(id, ZERO, before)
                                   ELSE <<before>>

\* One batch with a zero-point entry for a never-seen stream and one for a
\* stream whose state is no longer the initial one.
ZeroPointEntryWitness ==
    /\ Returned
    /\ \E i, j \in DOMAIN call.leafs :
         /\ call.updates[i][2] = <<>>
         /\ call.updates[j][2] = <<>>
         /\ call.trace[i].pre[call.updates[i][1]] = Absent
         /\ call.trace[j].pre[call.updates[j][1]] \notin {Absent, Genesis}

\* C11: applying the points [p1, p2] to a stream yields another head than
\* applying [p2, p1] to the same prior head when p1 differs from p2, and
\* the same head when p1 equals p2 (SHA-256 collision-free).
ChainOrderSensitive ==
    call.op = "hashchain" =>
        \A i \in DOMAIN call.leafs :
            LET id == call.updates[i][1]
                points == Expand(call.updates[i][2])
                prior == Read(call.trace[i].pre, id, EMPTY_NODE)
            IN  Len(points) = 2 =>
                    ((After(i)[id] = ChainFold(prior, <<points[2], points[1]>>))
                        <=> points[1] = points[2])

\* Two different points are applied to a stream that has a head already.
ChainOrderSensitiveWitness ==
    /\ call.op = "hashchain"
    /\ \E i \in DOMAIN call.leafs :
         LET id == call.updates[i][1]
             points == Expand(call.updates[i][2])
         IN  /\ Len(points) = 2
             /\ points[1] # points[2]
             /\ call.trace[i].pre[id] \notin {Absent, EMPTY_NODE}
             /\ After(i)[id] = Sha256(<<Sha256(<<call.trace[i].pre[id], points[1]>>), points[2]>>)

----------------------------------------------------------------------------
(* Properties that compare the last call with another run of update *)

\* update of the accumulator op, run on the store m with the batch updates.
RunOf(op, m, updates) ==
    IF op = "counter"
    THEN CounterLoop(LoopStart(m), updates, overflow_checks)
    ELSE HashChainLoop(LoopStart(m), updates)

\* States a stream can be in: never seen, seen without points, seen with
\* points.
StreamStates(op) ==
    IF op = "counter"
    THEN {Absent, ZERO, ONE, U32_MAX}
    ELSE {Absent, EMPTY_NODE, Sha256(<<EMPTY_NODE, OTHER_POINT>>)}

\* The stores that agree with m on the streams ids.
StoresAgreeing(op, m, ids) ==
    {m2 \in [StreamIDs -> StreamStates(op) \cup {m[s] : s \in StreamIDs}] :
        \A s \in ids : m2[s] = m[s]}

\* Whether the digest the call c returned is the digest of every run of the
\* same batch on a store that agrees on the streams the batch touches.
DigestIsPureFor(c) ==
    (c.op # "none" /\ c.outcome = "ok") =>
        \A m2 \in StoresAgreeing(c.op, c.pre, IdsOf(c.updates)) :
            LET r == RunOf(c.op, m2, c.updates)
            IN  /\ r.outcome = "ok"
                /\ compute_merkle_tree(r.leafs) = c.digest

\* C12: update with the same batch, on a store that agrees with the store
\* of the call on every stream the batch touches, returns the same
\* aggregate digest, whatever the states of the other streams are.
\* (call is the last call; peer is the Counter's when both were called.)
DigestIsPure == DigestIsPureFor(call) /\ DigestIsPureFor(peer)

\* A call that leaves out a stream with a state of its own, so that the
\* stores compared differ on it.
DigestIsPureWitness ==
    /\ Returned
    /\ call.op = "hashchain"
    /\ call.updates # <<>>
    /\ \E s \in StreamIDs \ IdsOf(call.updates) :
         /\ call.pre[s] \notin {Absent, EMPTY_NODE}
         /\ \E m2 \in StoresAgreeing(call.op, call.pre, IdsOf(call.updates)) :
              m2[s] = Absent

\* The store of the accumulator the call c ran on, as it is now.
StoreOf(c) == IF c.op = "counter" THEN counts ELSE heads

\* The entries of updates that are for stream s, in batch order.
RECURSIVE Project(_, _)
Project(updates, s) ==
    IF updates = <<>> THEN <<>>
    ELSE (IF Head(updates)[1] = s THEN <<Head(updates)>> ELSE <<>>)
         \o Project(Tail(updates), s)

\* Batches that carry the same points for stream s as updates does, with
\* other entries for the other streams: none, the same, or one more before
\* and after.
SamePointsFor(updates, s) ==
    {Project(updates, s), updates}
    \cup { <<<<t, <<<<EMPTY_POINT, ONE>>>>>>>> \o Project(updates, s) \o <<<<t, <<>>>>>> :
           t \in StreamIDs \ {s} }

\* Whether every stream's state after the call c is its state after every
\* run that returns, starts from the same state of that stream and carries
\* the same points for it.
IndependentFor(c) ==
    (c.op # "none" /\ c.outcome = "ok") =>
        \A s \in StreamIDs :
            \A m2 \in StoresAgreeing(c.op, c.pre, {s}) :
                \A batch \in SamePointsFor(c.updates, s) :
                    LET r == RunOf(c.op, m2, batch)
                    IN  r.outcome = "ok" => r.store[s] = StoreOf(c)[s]

\* C13: the state of a stream after an update call that returns depends
\* only on that stream's state before the call and on the points the batch
\* carries for it: a run on other states of the other streams, with other
\* entries for them, ends with the same state for the stream.
PerStreamIndependence == IndependentFor(call) /\ IndependentFor(peer)

\* A call that adds points to a stream with a state of its own and has an
\* entry for another stream too.
PerStreamIndependenceWitness ==
    /\ Returned
    /\ call.op = "counter"
    /\ \E i, j \in DOMAIN call.updates :
         /\ call.updates[i][1] # call.updates[j][1]
         /\ call.updates[i][2] # <<>>
         /\ call.pre[call.updates[i][1]] \notin {Absent, ZERO}
         /\ counts[call.updates[i][1]] # call.pre[call.updates[i][1]]

\* The three fields of the Counter's i-th leaf as C14 states them: the
\* stream id, the number of points of the entry, and the prior counter plus
\* that number.
StatedCounterLeaf(c, i) ==
    LET id == c.updates[i][1]
        local_count == VecLen(c.updates[i][2])
        prior == Read(c.trace[i].pre, id, ZERO)
    IN  <<Sha256(to_be_bytes(StreamID(id)) \o to_be_bytes(local_count)
                 \o to_be_bytes(BigAdd(prior, local_count)))>>

\* C14: every leaf the Counter emits is the hash of (id, local_count, new
\* running counter) in that order, local_count being the number of points
\* of the entry and the third field the prior counter plus local_count.
CounterLeafFormula ==
    /\ call.op = "counter" =>
          \A i \in DOMAIN call.leafs : call.leafs[i] = StatedCounterLeaf(call, i)
    /\ peer.op = "counter" =>
          \A i \in DOMAIN peer.leafs : peer.leafs[i] = StatedCounterLeaf(peer, i)

\* C15 as stated: the leaf the HashChain emits for an entry is the head
\* stored for the entry's stream when the update call returns.
LeafIsHeadAtReturn ==
    call.op = "hashchain" =>
        \A i \in DOMAIN call.leafs : call.leafs[i] = <<heads[call.updates[i][1]]>>

\* C15 as amended: the leaf of an entry is the head stored for its stream
\* right after the entry was processed; that is the head stored when the
\* call returns unless a later entry of the batch carries points for the
\* same stream.
LeafIsHeadAfterEntry ==
    call.op = "hashchain" =>
        \A i \in DOMAIN call.leafs :
            LET id == call.updates[i][1]
            IN  /\ call.leafs[i] = <<After(i)[id]>>
                /\ (\A j \in DOMAIN call.updates :
                       (j > i /\ call.updates[j][1] = id) => call.updates[j][2] = <<>>)
                   => call.leafs[i] = <<heads[id]>>

\* A batch with two entries for one stream, both with points.
LeafIsHeadAfterEntryWitness ==
    /\ call.op = "hashchain"
    /\ \E i, j \in DOMAIN call.leafs :
         /\ i < j
         /\ call.updates[i][1] = call.updates[j][1]
         /\ call.updates[i][2] # <<>>
         /\ call.updates[j][2] # <<>>
         /\ call.leafs[i] # call.leafs[j]
         /\ call.leafs[j] = <<heads[call.updates[j][1]]>>

\* The store right after the i-th entry of the call c was processed.
AfterOf(c, i) == IF i < Len(c.trace) THEN c.trace[i + 1].pre ELSE StoreOf(c)

Reverse(seq) == [i \in DOMAIN seq |-> seq[Len(seq) + 1 - i]]

DistinctIds(updates) ==
    \A i, j \in DOMAIN updates : updates[i][1] = updates[j][1] => i = j

\* Whether the call c fed the aggregator the leaf of its i-th entry in i-th
\* place, and whether the same entries in another order give the same
\* store, with the same digest only for the same sequence of leaves.
InBatchOrderFor(c) ==
    (c.op # "none" /\ c.outcome = "ok") =>
        /\ Len(c.leafs) = Len(c.updates)
        /\ \A i \in DOMAIN c.leafs :
              LET id == c.updates[i][1]
              IN  /\ c.trace[i].id = id
                  /\ c.leafs[i] = IF c.op = "counter"
                                  THEN CounterLeaf(id, VecLen(c.updates[i][2]), AfterOf(c, i)[id])
                                  ELSE <<AfterOf(c, i)[id]>>
        /\ c.digest = <<Sha256(Concat(c.leafs))>>
        /\ DistinctIds(c.updates) =>
              LET r == RunOf(c.op, c.pre, Reverse(c.updates))
              IN  /\ r.outcome = "ok"
                  /\ r.store = StoreOf(c)
                  /\ r.leafs = Reverse(c.leafs)
                  /\ (compute_merkle_tree(r.leafs) = c.digest) <=> (r.leafs = c.leafs)

\* C16: the i-th leaf fed to the aggregator is the leaf of the i-th entry
\* of the batch, so two batches that are permutations of each other over
\* distinct streams give the same store, and the same digest only when
\* their leaf sequences are equal.
LeavesInBatchOrder == InBatchOrderFor(call) /\ InBatchOrderFor(peer)

\* A batch over two streams whose leaves differ, so that the other order
\* gives another digest.
LeavesInBatchOrderWitness ==
    /\ Returned
    /\ call.op = "hashchain"
    /\ Len(call.updates) = 2
    /\ DistinctIds(call.updates)
    /\ call.leafs[1] # call.leafs[2]
    /\ compute_merkle_tree(Reverse(call.leafs)) # call.digest

\* Whether the keys after the call c are the keys before it and the stream
\* ids of its batch, and whether every stream the call met for the first
\* time was started from the initial value, with no failure.
TrackedFor(c) ==
    /\ c.op = "none" => (counts = EmptyMap /\ heads = EmptyMap)
    /\ c.op # "none" =>
          /\ Keys(c.pre) \subseteq Keys(StoreOf(c))
          /\ Keys(StoreOf(c)) \subseteq Keys(c.pre) \cup IdsOf(c.updates)
          /\ c.outcome = "ok" => Keys(StoreOf(c)) = Keys(c.pre) \cup IdsOf(c.updates)
          /\ \A i \in DOMAIN c.trace :
                LET id == c.updates[i][1]
                    points == c.updates[i][2]
                IN  (c.trace[i].pre[id] = Absent /\ FitsU32(VecLen(points))) =>
                        /\ i <= Len(c.leafs)
                        /\ AfterOf(c, i)[id] =
                              IF c.op = "counter" THEN VecLen(points)
                              ELSE ChainFold(EMPTY_NODE, Expand(points))

\* C17: the store starts empty; after every update call that returns its
\* key set is the key set before the call plus the stream ids of the
\* batch's entries (zero-point entries included); no key is removed; a
\* never-seen stream is started at 0 or the all-zero digest, with no error.
TrackedStreams ==
    /\ variant = "none" => (counts = EmptyMap /\ heads = EmptyMap)
    /\ TrackedFor(call)
    /\ peer.op # "none" => TrackedFor(peer)
    /\ variant \in {"hashchain", "both"} =>
          Keys(heads) = {s \in StreamIDs : hist[s] # <<>>}
    /\ (variant = "both" /\ peer.outcome = "ok") => Keys(counts) = Keys(heads)

\* A call adds a key for a stream seen for the first time with no points,
\* and keeps the key of a stream its batch leaves out.
TrackedStreamsWitness ==
    /\ Returned
    /\ call.op = "counter"
    /\ Keys(call.pre) # {}
    /\ Keys(call.pre) \ IdsOf(call.updates) # {}
    /\ \E i \in DOMAIN call.updates :
         /\ call.updates[i][2] = <<>>
         /\ call.trace[i].pre[call.updates[i][1]] = Absent
         /\ counts[call.updates[i][1]] = ZERO

\* Total entries plus runs of the second batch that a call is compared with.
MaxProbe == 2

CounterProbes == BatchesOver(CounterRuns, MaxProbe)

HashChainProbes == BatchesOver(HashChainRuns, MaxProbe)

\* The batches whose stream ids are none of ids.
DisjointProbes(op, ids) ==
    {b \in (IF op = "counter" THEN CounterProbes ELSE HashChainProbes) :
        IdsOf(b) \cap ids = {}}

\* What update returns to its caller after the run r.
DigestOf(r) == IF r.outcome = "ok" THEN compute_merkle_tree(r.leafs) ELSE <<>>

\* Whether the call c, with batch A, commutes with every batch B over other
\* streams: B after A and A after B, from the store c started from, return
\* and end in the same store with the same digest for A and for B.
CommutesFor(c) ==
    (c.op # "none" /\ c.outcome = "ok") =>
        \A B \in DisjointProbes(c.op, IdsOf(c.updates)) :
            LET b_first == RunOf(c.op, c.pre, B)
                b_second == RunOf(c.op, StoreOf(c), B)
                a_second == RunOf(c.op, b_first.store, c.updates)
            IN  b_first.outcome = "ok" =>
                    /\ b_second.outcome = "ok"
                    /\ a_second.outcome = "ok"
                    /\ b_second.store = a_second.store
                    /\ DigestOf(b_second) = DigestOf(b_first)
                    /\ DigestOf(a_second) = c.digest

\* C18: for two batches A and B over disjoint sets of stream ids, A then B
\* and B then A from the same store end in the same store, and each batch
\* returns the same aggregate digest in both orders.
DisjointBatchesCommute == CommutesFor(call) /\ CommutesFor(peer)

\* A call on a stream with a state of its own, while the other stream has
\* one too, so that a batch for the other stream changes the store.
DisjointBatchesCommuteWitness ==
    /\ Returned
    /\ call.op = "hashchain"
    /\ \E i \in DOMAIN call.updates : call.updates[i][2] # <<>>
    /\ \E B \in DisjointProbes(call.op, IdsOf(call.updates)) :
         /\ B # <<>>
         /\ RunOf(call.op, call.pre, B).store # call.pre
         /\ Keys(call.pre) = StreamIDs

----------------------------------------------------------------------------
(* The two accumulators fed the same batches *)

\* C19: when a Counter and a HashChain are fed the same batches (with no
\* overflow), after every call both stores have the same keys, both calls
\* folded the same number of leaves, and every stream's counter is the
\* number of points folded into the stream's chain head.
SameHistory ==
    (variant = "both" /\ call.op # "none") =>
        /\ peer.updates = call.updates
        /\ peer.outcome = "ok" /\ call.outcome = "ok"
        /\ Keys(counts) = Keys(heads)
        /\ Len(peer.leafs) = Len(call.leafs)
        /\ \A s \in StreamIDs :
              /\ Read(counts, s, ZERO) = <<0, Len(Concat(hist[s]))>>
              /\ heads[s] # Absent =>
                    heads[s] = ChainFold(EMPTY_NODE, Concat(hist[s]))

\* Both were called more than once; one stream has points from two calls,
\* the other was seen without points.
SameHistoryWitness ==
    /\ variant = "both"
    /\ Keys(call.pre) # {}
    /\ \E s, t \in StreamIDs :
         /\ counts[s] = <<0, 2>>
         /\ call.pre[s] \notin {Absent, EMPTY_NODE}
         /\ heads[s] # call.pre[s]
         /\ counts[t] = ZERO
         /\ heads[t] = EMPTY_NODE

====
